---- MODULE Spec2Model ----
(***************************************************************************)
(* A model of the TCP simulator: the heap-based PriorityQueue of           *)
(* pqueue.py, the packet layout and checksum of packet.py, and the client, *)
(* the server, the events and the run loop of TCPSimulator.py.             *)
(*                                                                         *)
(* Python exceptions are modelled as they happen: an operator that models  *)
(* a call returns the state the call leaves behind together with the name  *)
(* of the exception it raised ("" when it returned normally).  Assignments *)
(* made before the raise are kept, as in Python.                           *)
(*                                                                         *)
(* The specifications share the variables:                                 *)
(*   SpecPQ        any sequence of calls on a fresh PriorityQueue          *)
(*   Spec          the program TCPSimulator() as it runs                   *)
(*   FairSpec      Spec with the fairness of the run loop                  *)
(*   SpecHandlers  the handlers called one by one by a caller that         *)
(*                 survives their exceptions (as a unit test does)         *)
(***************************************************************************)
EXTENDS Integers, Sequences, FiniteSets, TLC

VARIABLES
    eventQueue,  \* the PriorityQueue: capacity, array, count, timestamp
    ret,         \* the pair last returned by dequeueWithPriority
    exc,         \* the exception raised by the last call ("" if none)
    client,      \* the TCPClient object
    server,      \* the TCPServer object
    sent,        \* the packets handed to the network (lines 91-93, 135-136),
                 \* in order, each with its destination and whether it was kept
    surfaced,    \* the buffers printed by "Server receives" (line 133)
    nEnq,        \* SpecPQ: the number of enqueue calls made
    nDeq,        \* SpecPQ: the number of dequeueWithPriority calls that returned
    nCalls,      \* SpecHandlers: the number of calls made by the caller
    call         \* the call made last: its name, handler, packet and input

vars == <<eventQueue, ret, exc, client, server, sent, surfaced,
          nEnq, nDeq, nCalls, call>>

(***************************************************************************)
(* Bounds of the model.                                                    *)
(***************************************************************************)
MaxEnq == 11
MaxDeq == 2
MaxMsgChars == 4
MaxHandlerMsgChars == 3
MaxCalls == 3

(***************************************************************************)
(* pqueue.py                                                               *)
(***************************************************************************)
INITIAL_CAPACITY == 10

\* The content of an array slot that was never assigned (Python's None).
None == [value |-> "None", priority |-> 0, timestamp |-> 0]

PQEntry(value, priority, timestamp) ==
    [value |-> value, priority |-> priority, timestamp |-> timestamp]

PQEntry_lt_noTimestamp(self, other) ==
    self.priority <= other.priority

PQEntry_lt(self, other) ==
    IF self.priority < other.priority THEN TRUE
    ELSE IF self.priority > other.priority THEN FALSE
    ELSE self.timestamp < other.timestamp

PriorityQueue_init ==
    [capacity  |-> INITIAL_CAPACITY,
     array     |-> [i \in 0..(INITIAL_CAPACITY - 1) |-> None],
     count     |-> 0,
     timestamp |-> 0]

size_capacity(q) == q.capacity

size(q) == q.count

isEmpty(q) == q.count = 0

expandCapacity_dropLast(q) ==
    LET capacity == q.capacity * 2
        newArray == [i \in 0..(capacity - 1) |->
                        IF i < q.count - 1 THEN q.array[i] ELSE None]
    IN  [q EXCEPT !.capacity = capacity, !.array = newArray]

expandCapacity(q) ==
    LET capacity == q.capacity * 2
        newArray == [i \in 0..(capacity - 1) |->
                        IF i < q.count THEN q.array[i] ELSE None]
    IN  [q EXCEPT !.capacity = capacity, !.array = newArray]

Swap(array, i, j) == [array EXCEPT ![i] = array[j], ![j] = array[i]]

\* The loop of enqueue (lines 47-52).
RECURSIVE SiftUp(_, _)
SiftUp(array, index) ==
    IF index > 0
    THEN LET parent == (index - 1) \div 2
         IN  IF PQEntry_lt(array[parent], array[index])
             THEN array
             ELSE SiftUp(Swap(array, parent, index), parent)
    ELSE array

enqueue(q, value, priority) ==
    LET q1    == IF q.count = q.capacity THEN expandCapacity(q) ELSE q
        index == q1.count
        ts    == q1.timestamp + 1
        entry == PQEntry(value, priority, ts)
    IN  [q1 EXCEPT !.count = index + 1,
                   !.timestamp = ts,
                   !.array = SiftUp([q1.array EXCEPT ![index] = entry], index)]

RECURSIVE SiftDown_leftChild(_, _, _)
SiftDown_leftChild(array, index, count) ==
    LET left == 2 * index + 1
    IN  IF left >= count
        THEN array
        ELSE IF PQEntry_lt(array[index], array[left])
             THEN array
             ELSE SiftDown_leftChild(Swap(array, left, index), left, count)

\* The loop of dequeueWithPriority (lines 66-78); count is the new count.
RECURSIVE SiftDown(_, _, _)
SiftDown(array, index, count) ==
    LET left  == 2 * index + 1
        right == 2 * index + 2
    IN  IF left >= count
        THEN array
        ELSE LET child == IF right < count /\ PQEntry_lt(array[right], array[left])
                          THEN right ELSE left
             IN  IF PQEntry_lt(array[index], array[child])
                 THEN array
                 ELSE SiftDown(Swap(array, child, index), child, count)

\* Returns the queue afterwards, the pair returned and the exception raised.
dequeueWithPriority(q) ==
    IF q.count = 0
    THEN [q |-> q, pair |-> <<None.value, None.priority>>, raised |-> "IndexError"]
    ELSE LET pair  == <<q.array[0].value, q.array[0].priority>>
             count == q.count - 1
             moved == [q.array EXCEPT ![0] = q.array[count]]
         IN  [q      |-> [q EXCEPT !.count = count,
                                   !.array = SiftDown(moved, 0, count)],
              pair   |-> pair,
              raised |-> ""]

peek_noCheck(q) ==
    [q |-> q, value |-> q.array[0].value, raised |-> ""]

\* Returns the queue afterwards, the value returned and the exception raised.
peek(q) ==
    IF q.count = 0
    THEN [q |-> q, value |-> None.value, raised |-> "IndexError"]
    ELSE [q |-> q, value |-> q.array[0].value, raised |-> ""]

peekPriority_last(q) ==
    IF q.count = 0
    THEN [q |-> q, value |-> None.priority, raised |-> "IndexError"]
    ELSE [q |-> q, value |-> q.array[q.count - 1].priority, raised |-> ""]

peekPriority(q) ==
    IF q.count = 0
    THEN [q |-> q, value |-> None.priority, raised |-> "IndexError"]
    ELSE [q |-> q, value |-> q.array[0].priority, raised |-> ""]

(***************************************************************************)
(* packet.py                                                               *)
(***************************************************************************)
TCP_HEADER_WORDS == 5

\* The fields of a TCPPacket that the simulator sets; src, dst, window and
\* urgent keep their default 0 and options its default bytes().
TCPPacket(seq, ack, ACK, FIN, checksum, data) ==
    [seq |-> seq, ack |-> ack, ACK |-> ACK, FIN |-> FIN,
     checksum |-> checksum, data |-> data]

appendByte(array, b) == Append(array, b % 256)

appendHalfWord(array, hw) == appendByte(appendByte(array, hw \div 256), hw)

appendWord(array, w) ==
    appendByte(appendByte(appendByte(appendByte(array,
        w \div 16777216), w \div 65536), w \div 256), w)

toBytes(p) ==
    LET hlen == TCP_HEADER_WORDS
        hw   == hlen * 4096 + (IF p.ACK THEN 16 ELSE 0) + (IF p.FIN THEN 1 ELSE 0)
        a1   == appendHalfWord(appendHalfWord(<<>>, 0), 0)
        a2   == appendWord(appendWord(a1, p.seq), p.ack)
        a3   == appendHalfWord(appendHalfWord(a2, hw), 0)
        a4   == appendHalfWord(appendHalfWord(a3, p.checksum), 0)
    IN  a4 \o p.data

\* The sum of the big-endian halfwords of data, modulo 2^16: what the
\* docstring of checksum16 describes.
RECURSIVE HalfWordSum(_)
HalfWordSum(data) ==
    IF Len(data) = 0 THEN 0
    ELSE IF Len(data) = 1 THEN data[1] * 256
    ELSE data[1] * 256 + data[2] + HalfWordSum(SubSeq(data, 3, Len(data)))

checksum16_defined(data) ==
    [raised |-> "", value |-> HalfWordSum(data) % 65536]

\* Line 230 calls length(data); Python has no such name, so every call
\* raises NameError before anything is computed.
checksum16(data) ==
    [raised |-> "NameError", value |-> 0]

(***************************************************************************)
(* TCPSimulator.py                                                         *)
(***************************************************************************)
MAX_PACKET_DATA == 4
TRANSMISSION_DELAY == 5
ROUND_TRIP_TIME == 2 * TRANSMISSION_DELAY
TIMEOUT == 2 * ROUND_TRIP_TIME

\* LOST_PACKET_PROBABILITY is 0.25 and random.random() is uniform on [0,1),
\* so keepPacketBool can return either value.
keepPacketBool == BOOLEAN

Min(a, b) == IF a < b THEN a ELSE b

\* Python's s[a:b] for 0 <= a and 0 <= b, on a 1-based TLA+ sequence.
Slice(s, a, b) == SubSeq(s, a + 1, Min(b, Len(s)))

\* str.encode("UTF-8") on a string given as its code points (below 2048).
RECURSIVE Encode(_)
Encode(msg) ==
    IF msg = <<>> THEN <<>>
    ELSE LET c == Head(msg)
         IN  (IF c < 128 THEN <<c>>
              ELSE <<192 + (c \div 64), 128 + (c % 64)>>) \o Encode(Tail(msg))

\* bytes.decode("UTF-8") for one- and two-byte sequences; <<-1>> stands for
\* UnicodeDecodeError.
RECURSIVE Decode(_)
Decode(b) ==
    IF b = <<>> THEN <<>>
    ELSE IF b[1] < 128
         THEN LET r == Decode(Tail(b))
              IN  IF r = <<-1>> THEN r ELSE <<b[1]>> \o r
    ELSE IF b[1] >= 194 /\ b[1] < 224 /\ Len(b) >= 2 /\ b[2] >= 128 /\ b[2] < 192
         THEN LET r == Decode(SubSeq(b, 3, Len(b)))
              IN  IF r = <<-1>> THEN r
                  ELSE <<(b[1] - 192) * 64 + (b[2] - 128)>> \o r
    ELSE <<-1>>

\* The attributes and methods the classes define.
TCPClient_methods ==
    {"requestMessage", "sendNextPacket", "receivePacket", "queueRequestMessage"}

TCPServer_methods ==
    {"receivePacket", "resetForNextMessage", "queueTimeoutMessage"}

TimeoutEvent_attrs == {"handler", "packet", "dispatch"}

\* The number of arguments TimeoutEvent.__init__ takes besides self.
TimeoutEvent_init_arity == 2

NoPacket == TCPPacket(0, 0, FALSE, FALSE, 0, <<>>)

RequestMessageEvent ==
    [kind |-> "RequestMessage", handler |-> "client", packet |-> NoPacket]

ReceivePacketEvent(handler, packet) ==
    [kind |-> "ReceivePacket", handler |-> handler, packet |-> packet]

TimeoutEvent(handler, packet) ==
    [kind |-> "Timeout", handler |-> handler, packet |-> packet]

\* TCPClient.__init__ sets awaitingAck; line 50 sets server.  msgBytes, seq
\* and ack do not exist until they are assigned (attrs tells which exist).
TCPClient_init ==
    [attrs |-> {"awaitingAck", "server"},
     awaitingAck |-> <<>>, msgBytes |-> <<>>, seq |-> 0, ack |-> 0]

\* TCPServer.__init__ calls resetForNextMessage; line 51 sets client.
TCPServer_init ==
    [attrs |-> {"msgBytes", "ack", "client"},
     msgBytes |-> <<>>, seq |-> 0, ack |-> 0]

\* The state a call works on; raised is the exception that ended the call.
World ==
    [eventQueue |-> eventQueue, client |-> client, server |-> server,
     sent |-> sent, surfaced |-> surfaced, raised |-> ""]

Raise(w, name) == [w EXCEPT !.raised = name]

DictSet(d, key, val) ==
    [k \in (DOMAIN d) \cup {key} |-> IF k = key THEN val ELSE d[k]]

queueRequestMessage(w, t) ==
    [w EXCEPT !.eventQueue = enqueue(w.eventQueue, RequestMessageEvent, t)]

\* TCPServer.queueTimeoutMessage: TimeoutEvent(packet) passes one argument
\* to an __init__ that takes two.
queueTimeoutMessage(w, packet, t) ==
    IF TimeoutEvent_init_arity # 1
    THEN Raise(w, "TypeError")
    ELSE [w EXCEPT !.eventQueue =
              enqueue(w.eventQueue, TimeoutEvent("server", packet), TIMEOUT)]

Sent(to, packet, kept) == [to |-> to, packet |-> packet, kept |-> kept]

\* The packet sendNextPacket builds (lines 85-89) from the client's fields.
NextPacket(msgBytes, seq, ack) ==
    LET nBytes == Min(MAX_PACKET_DATA, Len(msgBytes) - seq)
        data   == Slice(msgBytes, seq, seq + nBytes)
    IN  TCPPacket(seq, ack, TRUE, seq + nBytes = Len(msgBytes), 0, data)

sendNextPacket(w, t, keep) ==
    LET c      == w.client
        p      == NextPacket(c.msgBytes, c.seq, c.ack)
        cs     == checksum16(toBytes(p))
        w1     == [w EXCEPT !.client.awaitingAck =
                       DictSet(c.awaitingAck, cs.value, p),
                            !.sent = Append(w.sent, Sent("server", p, keep))]
        w2     == IF keep
                  THEN [w1 EXCEPT !.eventQueue =
                           enqueue(w1.eventQueue, ReceivePacketEvent("server", p),
                                   t + TRANSMISSION_DELAY)]
                  ELSE w1
        w3     == IF "queueTimeoutMessage" \in TCPClient_methods
                  THEN queueTimeoutMessage(w2, p, t)
                  ELSE Raise(w2, "AttributeError")
    IN  IF "msgBytes" \notin c.attrs THEN Raise(w, "AttributeError")
        ELSE IF cs.raised # "" THEN Raise(w, cs.raised)
        ELSE IF w3.raised # "" THEN w3
        ELSE IF p.FIN THEN queueRequestMessage(w3, t + TIMEOUT)
        ELSE w3

requestMessage_requeue(w, msg, t, keep) ==
    IF Len(msg) # 0
    THEN sendNextPacket(
             [w EXCEPT !.client.msgBytes = Encode(msg),
                       !.client.seq = 0,
                       !.client.ack = 0,
                       !.client.attrs = @ \cup {"msgBytes", "seq", "ack"}],
             t, keep)
    ELSE queueRequestMessage(w, t + TIMEOUT)

\* msg is what input() returned, as code points.
requestMessage(w, msg, t, keep) ==
    IF Len(msg) # 0
    THEN sendNextPacket(
             [w EXCEPT !.client.msgBytes = Encode(msg),
                       !.client.seq = 0,
                       !.client.ack = 0,
                       !.client.attrs = @ \cup {"msgBytes", "seq", "ack"}],
             t, keep)
    ELSE w

TCPClient_receivePacket(w, p, t, keep) ==
    LET w1 == [w EXCEPT !.client.seq = p.ack,
                        !.client.ack = p.seq + 1,
                        !.client.attrs = @ \cup {"seq", "ack"}]
    IN  IF "msgBytes" \notin w1.client.attrs THEN Raise(w1, "AttributeError")
        ELSE IF w1.client.seq < Len(w1.client.msgBytes)
        THEN sendNextPacket(w1, t, keep)
        ELSE w1

resetForNextMessage(sv) ==
    [sv EXCEPT !.msgBytes = <<>>, !.ack = 0]

TCPServer_receivePacket(w, p, t) ==
    LET w1    == [w EXCEPT !.server.msgBytes = @ \o p.data,
                           !.server.seq = p.ack,
                           !.server.ack = p.seq + Len(p.data),
                           !.server.attrs = @ \cup {"seq"}]
        cs    == checksum16(toBytes(p))
        reply == TCPPacket(w1.server.seq, w1.server.ack, TRUE, p.FIN,
                           (0 - cs.value) - 1, <<>>)
        text  == Decode(w1.server.msgBytes)
        w2    == IF p.FIN
                 THEN [w1 EXCEPT !.surfaced = Append(w1.surfaced, text),
                                 !.server = resetForNextMessage(w1.server)]
                 ELSE w1
    IN  IF cs.raised # "" THEN Raise(w1, cs.raised)
        ELSE IF p.FIN /\ text = <<-1>> THEN Raise(w1, "UnicodeDecodeError")
        ELSE [w2 EXCEPT !.eventQueue =
                  enqueue(w2.eventQueue, ReceivePacketEvent("client", reply),
                          t + TRANSMISSION_DELAY),
                        !.sent = Append(w2.sent, Sent("client", reply, TRUE))]

\* The handler TimeoutEvent.dispatch means to call (line 172).
Retransmit(w, e, t, keep) ==
    IF e.handler = "server"
    THEN TCPServer_receivePacket(w, e.packet, t)
    ELSE TCPClient_receivePacket(w, e.packet, t, keep)

TimeoutEvent_dispatch_always(w, e, t, keep) ==
    Retransmit(w, e, t, keep)

\* Line 171 reads self.awaitingAck and self.checksum, which a TimeoutEvent
\* does not have; line 172 calls handler.ReceivePacket, which no class has.
TimeoutEvent_dispatch(w, e, t, keep) ==
    IF "awaitingAck" \notin TimeoutEvent_attrs THEN Raise(w, "AttributeError")
    ELSE IF "checksum" \notin TimeoutEvent_attrs THEN Raise(w, "AttributeError")
    ELSE IF "ReceivePacket" \notin
              (IF e.handler = "server" THEN TCPServer_methods ELSE TCPClient_methods)
    THEN Raise(w, "AttributeError")
    ELSE Raise(w, "NameError")

ReceivePacketEvent_dispatch(w, e, t, keep) ==
    IF e.handler = "server"
    THEN TCPServer_receivePacket(w, e.packet, t)
    ELSE TCPClient_receivePacket(w, e.packet, t, keep)

\* e.dispatch(eventQueue, t) of line 59, for the three event classes.
dispatch(w, e, msg, t, keep) ==
    IF e.kind = "RequestMessage" THEN requestMessage(w, msg, t, keep)
    ELSE IF e.kind = "ReceivePacket" THEN ReceivePacketEvent_dispatch(w, e, t, keep)
    ELSE TimeoutEvent_dispatch(w, e, t, keep)

\* The variables after a call that left the state w.
Commit(w) ==
    /\ eventQueue' = w.eventQueue
    /\ client' = w.client
    /\ server' = w.server
    /\ sent' = w.sent
    /\ surfaced' = w.surfaced
    /\ exc' = w.raised

(***************************************************************************)
(* The inputs.  A message is a string over Chars, given as code points     *)
(* (97 is "a", 98 is "b", 233 is a two-byte character).                    *)
(***************************************************************************)
Chars == {97, 98, 233}

Messages == UNION {[1..n -> Chars] : n \in 0..MaxMsgChars}

NoPair == <<None.value, None.priority>>

NoCall == [name |-> "", handler |-> "", packet |-> NoPacket, msg |-> <<>>]

Call(name, handler, packet, msg) ==
    [name |-> name, handler |-> handler, packet |-> packet, msg |-> msg]

(***************************************************************************)
(* Spec: the program.  TCPSimulator() builds the queue, the client and the *)
(* server, enqueues the first RequestMessage at time 0 (lines 47-52) and   *)
(* runs the loop of lines 55-59.  An exception that leaves dispatch is     *)
(* caught nowhere and ends the program.                                    *)
(***************************************************************************)
Init ==
    /\ eventQueue = enqueue(PriorityQueue_init, RequestMessageEvent, 0)
    /\ ret = NoPair
    /\ exc = ""
    /\ client = TCPClient_init
    /\ server = TCPServer_init
    /\ sent = <<>>
    /\ surfaced = <<>>
    /\ nEnq = 0
    /\ nDeq = 0
    /\ nCalls = 0
    /\ call = NoCall

\* One iteration of the loop: msg is what input() returns if it is called,
\* keep what keepPacketBool returns if it is called.
RunLoop(msg, keep) ==
    /\ exc = ""
    /\ ~isEmpty(eventQueue)
    /\ LET r == dequeueWithPriority(eventQueue)
           e == r.pair[1]
           t == r.pair[2]
       IN  /\ ret' = r.pair
           /\ Commit(dispatch([World EXCEPT !.eventQueue = r.q], e, msg, t, keep))
           /\ call' = Call(e.kind, e.handler, e.packet,
                            IF e.kind = "RequestMessage" THEN msg ELSE <<>>)
    /\ UNCHANGED <<nEnq, nDeq, nCalls>>

Next == \E msg \in Messages, keep \in keepPacketBool : RunLoop(msg, keep)

Spec == Init /\ [][Next]_vars

\* The loop has nothing that could keep it from taking its next iteration,
\* and keepPacketBool, asked again and again, does not answer False forever.
FairSpec ==
    /\ Spec
    /\ WF_vars(Next)
    /\ SF_vars(\E msg \in Messages : RunLoop(msg, TRUE))

(***************************************************************************)
(* SpecPQ: a caller of a fresh PriorityQueue.  The k-th enqueue call       *)
(* passes the value k, so that a value identifies the call that put it in; *)
(* the times are drawn from Times.  call names the method called last and  *)
(* ret holds what the last call that returned has returned: the pair of    *)
(* dequeueWithPriority, or the one value of peek or peekPriority.  One of  *)
(* the callers is the run loop of TCPSimulator (lines 55-56), which asks   *)
(* isEmpty before it dequeues.                                             *)
(***************************************************************************)
Times == {3, 5}

InitPQ ==
    /\ eventQueue = PriorityQueue_init
    /\ ret = NoPair
    /\ exc = ""
    /\ client = TCPClient_init
    /\ server = TCPServer_init
    /\ sent = <<>>
    /\ surfaced = <<>>
    /\ nEnq = 0
    /\ nDeq = 0
    /\ nCalls = 0
    /\ call = NoCall

PQ_Enqueue(time) ==
    /\ nEnq < MaxEnq
    /\ eventQueue' = enqueue(eventQueue, nEnq + 1, time)
    /\ nEnq' = nEnq + 1
    /\ exc' = ""
    /\ call' = Call("enqueue", "", NoPacket, <<>>)
    /\ UNCHANGED <<ret, nDeq, client, server, sent, surfaced, nCalls>>

PQ_DequeueWithPriority ==
    /\ nDeq < MaxDeq
    /\ LET r == dequeueWithPriority(eventQueue)
       IN  /\ eventQueue' = r.q
           /\ exc' = r.raised
           /\ ret' = IF r.raised = "" THEN r.pair ELSE ret
           /\ nDeq' = IF r.raised = "" THEN nDeq + 1 ELSE nDeq
    /\ call' = Call("dequeueWithPriority", "", NoPacket, <<>>)
    /\ UNCHANGED <<nEnq, client, server, sent, surfaced, nCalls>>

PQ_Peek ==
    /\ LET r == peek(eventQueue)
       IN  /\ eventQueue' = r.q
           /\ exc' = r.raised
           /\ ret' = IF r.raised = "" THEN <<r.value>> ELSE ret
    /\ call' = Call("peek", "", NoPacket, <<>>)
    /\ UNCHANGED <<nEnq, nDeq, client, server, sent, surfaced, nCalls>>

PQ_PeekPriority ==
    /\ LET r == peekPriority(eventQueue)
       IN  /\ eventQueue' = r.q
           /\ exc' = r.raised
           /\ ret' = IF r.raised = "" THEN <<r.value>> ELSE ret
    /\ call' = Call("peekPriority", "", NoPacket, <<>>)
    /\ UNCHANGED <<nEnq, nDeq, client, server, sent, surfaced, nCalls>>

\* Lines 55-56: the loop of TCPSimulator dequeues while isEmpty() is false.
PQ_RunLoopDequeue ==
    /\ nDeq < MaxDeq
    /\ ~isEmpty(eventQueue)
    /\ LET r == dequeueWithPriority(eventQueue)
       IN  /\ eventQueue' = r.q
           /\ exc' = r.raised
           /\ ret' = IF r.raised = "" THEN r.pair ELSE ret
           /\ nDeq' = IF r.raised = "" THEN nDeq + 1 ELSE nDeq
    /\ call' = Call("RunLoop", "", NoPacket, <<>>)
    /\ UNCHANGED <<nEnq, client, server, sent, surfaced, nCalls>>

NextPQ ==
    \/ \E time \in Times : PQ_Enqueue(time)
    \/ PQ_DequeueWithPriority
    \/ PQ_Peek
    \/ PQ_PeekPriority
    \/ PQ_RunLoopDequeue

SpecPQ == InitPQ /\ [][NextPQ]_vars

(***************************************************************************)
(* SpecHandlers: a caller that has built the objects as TCPSimulator()     *)
(* does and then calls the handlers itself, one call at a time, going on   *)
(* after a call that raised.  It passes to the server the packets the      *)
(* client builds from its message, and to the client acknowledgments.      *)
(***************************************************************************)
HandlerTimes == {0, 25}

\* The caller's messages: "a" and the two-byte character.
HandlerChars == {97, 233}

HandlerMessages == UNION {[1..n -> HandlerChars] : n \in 0..MaxHandlerMsgChars}

\* The packets the client builds from its current message, one per offset.
DataPackets ==
    IF "msgBytes" \in client.attrs
    THEN {NextPacket(client.msgBytes, s, client.ack) :
              s \in 0..(Len(client.msgBytes) - 1)}
    ELSE {}

\* Acknowledgments as the server would build them (line 130): no data.
AckPackets ==
    {TCPPacket(0, a, TRUE, FALSE, 0, <<>>) : a \in 0..(2 * MaxHandlerMsgChars)}

Called(name, handler, packet, msg) ==
    /\ nCalls < MaxCalls
    /\ nCalls' = nCalls + 1
    /\ call' = Call(name, handler, packet, msg)
    /\ UNCHANGED <<nEnq, nDeq>>

H_requestMessage(msg, t, keep) ==
    /\ Called("RequestMessage", "client", NoPacket, msg)
    /\ Commit(requestMessage(World, msg, t, keep))
    /\ UNCHANGED ret

H_clientReceivePacket(p, t, keep) ==
    /\ Called("ReceivePacket", "client", p, <<>>)
    /\ Commit(TCPClient_receivePacket(World, p, t, keep))
    /\ UNCHANGED ret

H_serverReceivePacket(p, t) ==
    /\ Called("ReceivePacket", "server", p, <<>>)
    /\ Commit(TCPServer_receivePacket(World, p, t))
    /\ UNCHANGED ret

H_TimeoutDispatch(handler, p, t, keep) ==
    /\ Called("Timeout", handler, p, <<>>)
    /\ Commit(TimeoutEvent_dispatch(World, TimeoutEvent(handler, p), t, keep))
    /\ UNCHANGED ret

H_queueTimeoutMessage(p, t) ==
    /\ Called("queueTimeoutMessage", "server", p, <<>>)
    /\ Commit(queueTimeoutMessage(World, p, t))
    /\ UNCHANGED ret

H_queueRequestMessage(t) ==
    /\ Called("queueRequestMessage", "client", NoPacket, <<>>)
    /\ Commit(queueRequestMessage(World, t))
    /\ UNCHANGED ret

\* Lines 56-59 once: the caller takes the next event and dispatches it.
H_RunLoop(msg, keep) ==
    /\ ~isEmpty(eventQueue)
    /\ LET r == dequeueWithPriority(eventQueue)
           e == r.pair[1]
           t == r.pair[2]
       IN  /\ ret' = r.pair
           /\ Commit(dispatch([World EXCEPT !.eventQueue = r.q], e, msg, t, keep))
           /\ Called(e.kind, e.handler, e.packet,
                     IF e.kind = "RequestMessage" THEN msg ELSE <<>>)

NextHandlers ==
    \/ \E msg \in HandlerMessages, t \in HandlerTimes, keep \in keepPacketBool :
           H_requestMessage(msg, t, keep)
    \/ \E p \in AckPackets, t \in HandlerTimes, keep \in keepPacketBool :
           H_clientReceivePacket(p, t, keep)
    \/ \E p \in DataPackets, t \in HandlerTimes :
           H_serverReceivePacket(p, t)
    \/ \E handler \in {"client", "server"}, p \in DataPackets,
          t \in HandlerTimes, keep \in keepPacketBool :
           H_TimeoutDispatch(handler, p, t, keep)
    \/ \E p \in DataPackets, t \in HandlerTimes :
           H_queueTimeoutMessage(p, t)
    \/ \E t \in HandlerTimes :
           H_queueRequestMessage(t)
    \/ \E msg \in HandlerMessages, keep \in keepPacketBool :
           H_RunLoop(msg, keep)

SpecHandlers == Init /\ [][NextHandlers]_vars

(***************************************************************************)
(* Properties.                                                             *)
(***************************************************************************)

\* The entries in the queue: the first count slots of the array.
Live(q) == {q.array[i] : i \in 0..(q.count - 1)}

\* The entries of the second queue that are not in the first.
Added(q1, q2) == Live(q2) \ Live(q1)

\* In SpecPQ a value is the number of the enqueue call that passed it.
Before(e, f) ==
    \/ e.priority < f.priority
    \/ e.priority = f.priority /\ e.value < f.value

\* C1: every dequeueWithPriority returns the entry of the queue whose time
\* is smallest and, among those of equal time, the one enqueued earliest,
\* and removes that entry.
C1_DequeueOrder ==
    [][nDeq' = nDeq + 1 =>
          \E e \in Live(eventQueue) :
              /\ ret' = <<e.value, e.priority>>
              /\ \A f \in Live(eventQueue) \ {e} : Before(e, f)
              /\ Live(eventQueue') = Live(eventQueue) \ {e}]_vars

\* Times 5, 3, 5 were enqueued as calls 1, 2, 3 (call 3 went into slot 2, so
\* all three were in the queue), call 2 was dequeued, then call 1 before
\* call 3, which has the same time.
C1_Witness ==
    /\ nDeq = 2
    /\ ret = <<1, 5>>
    /\ eventQueue.count = 1
    /\ eventQueue.array[0] = PQEntry(3, 5, 3)
    /\ eventQueue.array[2] = PQEntry(3, 5, 3)

Acked(p) ==
    /\ "seq" \in client.attrs
    /\ Len(p.data) > 0
    /\ client.seq >= p.seq + Len(p.data)

TimeoutStep ==
    /\ nCalls' = nCalls + 1
    /\ call'.name = "Timeout"

C4_LiveTimeoutRetransmits ==
    [][TimeoutStep /\ ~Acked(call'.packet) =>
          /\ Len(sent') = Len(sent) + 1
          /\ sent'[Len(sent')].to = "server"
          /\ sent'[Len(sent')].packet = call'.packet
          /\ \E e \in Added(eventQueue, eventQueue') :
                 /\ e.value.kind = "Timeout"
                 /\ e.value.packet.seq = call'.packet.seq
                 /\ \A f \in Added(eventQueue, eventQueue') :
                        f.value.kind = "Timeout" => f = e]_vars

\* The run is over: the loop found the queue empty or an exception ended it.
RunEnded == exc # "" \/ isEmpty(eventQueue)

\* No delivery attempt was dropped.
NoLoss == \A i \in 1..Len(sent) : sent[i].kept

\* The data segments handed to the network, in order.
DataSent == SelectSeq(sent, LAMBDA x : x.to = "server")

\* The acknowledgments handed to the network, in order.
AcksSent == SelectSeq(sent, LAMBDA x : x.to = "client")

RECURSIVE Payloads(_)
Payloads(segs) ==
    IF segs = <<>> THEN <<>> ELSE Head(segs).packet.data \o Payloads(Tail(segs))

\* C5: without loss, a run that submitted a message of L bytes has sent
\* ceil(L / MAX_PACKET_DATA) data segments: the payloads make up the
\* message, each sequence number is the offset of its payload, and FIN is
\* on the last segment only.
C5_Segmentation ==
    (RunEnded /\ NoLoss /\ "msgBytes" \in client.attrs) =>
        LET L == Len(client.msgBytes)
            n == Len(DataSent)
        IN  /\ n = (L + MAX_PACKET_DATA - 1) \div MAX_PACKET_DATA
            /\ Payloads(DataSent) = client.msgBytes
            /\ \A i \in 1..n :
                   /\ DataSent[i].packet.seq = (i - 1) * MAX_PACKET_DATA
                   /\ DataSent[i].packet.FIN = (i = n)

\* C6: without loss, a run that submitted a message has surfaced that
\* message at the server and the server has sent one ACK+FIN reply.
C6_HappyPath ==
    (RunEnded /\ NoLoss /\ "msgBytes" \in client.attrs) =>
        /\ surfaced = <<Decode(client.msgBytes)>>
        /\ Cardinality({i \in 1..Len(AcksSent) :
               AcksSent[i].packet.FIN /\ AcksSent[i].packet.ACK}) = 1

\* C7: a message the client has submitted is eventually surfaced by the
\* server.
C7_EventualDelivery ==
    ("msgBytes" \in client.attrs) ~>
        (\E i \in 1..Len(surfaced) : Encode(surfaced[i]) = client.msgBytes)

\* A message is in flight: part of the client's message is unacknowledged.
InFlight ==
    /\ "msgBytes" \in client.attrs
    /\ client.seq < Len(client.msgBytes)

\* C9: a submission of a non-empty message fails and leaves the client as
\* it was if a message is in flight; otherwise it sets the cursors to 0,
\* stores the message and sends the first segment.
C9_SubmitMessage ==
    [][(call'.name = "RequestMessage" /\ call # call' /\ call'.msg # <<>>) =>
          IF InFlight
          THEN exc' # "" /\ UNCHANGED <<client, sent>>
          ELSE /\ client'.seq = 0
               /\ client'.ack = 0
               /\ client'.msgBytes = Encode(call'.msg)
               /\ Len(sent') = Len(sent) + 1
               /\ sent'[Len(sent')].packet =
                      NextPacket(Encode(call'.msg), 0, 0)]_vars

\* C10: an acknowledgment whose number is not above the client's seq does
\* not move seq backwards, sends nothing and enqueues nothing.
C10_StaleAckNoOp ==
    [][(/\ nCalls' = nCalls + 1
        /\ call'.name = "ReceivePacket"
        /\ call'.handler = "client"
        /\ {"seq", "msgBytes"} \subseteq client.attrs
        /\ call'.packet.ack <= client.seq) =>
          /\ client'.seq >= client.seq
          /\ sent' = sent
          /\ Added(eventQueue, eventQueue') = {}
          /\ eventQueue'.timestamp = eventQueue.timestamp]_vars

\* C11: after n enqueue calls and m dequeueWithPriority calls that returned,
\* size() is n - m and isEmpty() is true exactly when n - m is 0.
C11_Counting ==
    /\ size(eventQueue) = nEnq - nDeq
    /\ isEmpty(eventQueue) <=> (nEnq - nDeq = 0)

\* Two entries went in and came out again, and the queue is empty.
C11_Witness ==
    /\ nEnq = 2
    /\ nDeq = 2
    /\ size(eventQueue) = 0
    /\ isEmpty(eventQueue)

\* C12: once the storage has grown, none of the first count slots is empty,
\* an enqueue still adds exactly its entry to the entries of the queue and a
\* dequeue still returns and removes the entry least in (time, order of the
\* enqueue calls).
C12_GrowthTransparent ==
    [][eventQueue'.capacity > INITIAL_CAPACITY =>
          /\ \A i \in 0..(eventQueue'.count - 1) :
                 eventQueue'.array[i].timestamp > 0
          /\ nEnq' = nEnq + 1 =>
                 /\ eventQueue'.count = eventQueue.count + 1
                 /\ Cardinality(Live(eventQueue')) = eventQueue'.count
                 /\ Live(eventQueue) \subseteq Live(eventQueue')
                 /\ \A e \in Added(eventQueue, eventQueue') : e.value = nEnq'
          /\ nDeq' = nDeq + 1 =>
                 /\ eventQueue'.count = eventQueue.count - 1
                 /\ Cardinality(Live(eventQueue')) = eventQueue'.count
                 /\ Live(eventQueue') \subseteq Live(eventQueue)
                 /\ \A f \in Live(eventQueue') :
                        \/ ret'[2] < f.priority
                        \/ ret'[2] = f.priority /\ ret'[1] < f.value]_vars

\* Eleven entries went in, so that expandCapacity ran, and two came out.
C12_Witness ==
    /\ eventQueue.capacity = 2 * INITIAL_CAPACITY
    /\ nEnq = INITIAL_CAPACITY + 1
    /\ nDeq = 2
    /\ eventQueue.count = INITIAL_CAPACITY - 1

\* The order of PQEntry: time first, then the insertion timestamp.
EntryBefore(a, b) ==
    \/ a.priority < b.priority
    \/ a.priority = b.priority /\ a.timestamp < b.timestamp

\* C20: the first count slots of the array form a binary min-heap in the
\* (time, timestamp) order, and the timestamps in them are distinct.
C20_HeapInvariant ==
    /\ \A i \in 1..(eventQueue.count - 1) :
           EntryBefore(eventQueue.array[(i - 1) \div 2], eventQueue.array[i])
    /\ \A i, j \in 0..(eventQueue.count - 1) :
           i # j => eventQueue.array[i].timestamp # eventQueue.array[j].timestamp

\* A heap of several entries after the storage grew and entries came out.
C20_Witness ==
    /\ eventQueue.capacity > INITIAL_CAPACITY
    /\ nDeq = 2
    /\ eventQueue.count >= 3

\* C13: dequeueWithPriority, peek and peekPriority raise exactly when the
\* queue is empty, a call that raises leaves the queue as it was, and the
\* run loop's dequeue never finds the queue empty.
C13_EmptyQueueError ==
    [][/\ call'.name \in {"dequeueWithPriority", "peek", "peekPriority"} =>
              /\ (exc' = "IndexError") <=> (eventQueue.count = 0)
              /\ exc' \in {"", "IndexError"}
              /\ exc' # "" => eventQueue' = eventQueue
       /\ call'.name = "RunLoop" =>
              /\ eventQueue.count > 0
              /\ exc' = ""]_vars

\* peek has raised on the queue from which everything was dequeued.
C13_Witness ==
    /\ call.name = "peek"
    /\ exc = "IndexError"
    /\ nEnq = 2
    /\ nDeq = 2
    /\ eventQueue.count = 0

\* The entry of q that comes out next: least in (time, enqueue call).
IsNext(q, e) ==
    /\ e \in Live(q)
    /\ \A f \in Live(q) \ {e} : Before(e, f)

\* C19: on a non-empty queue peek returns the value and peekPriority the
\* time of the entry that the next dequeueWithPriority returns, and both
\* leave the queue (count, contents, timestamp) as it was.
C19_PeekFrame ==
    [][/\ (call'.name = "peek" /\ eventQueue.count > 0) =>
              /\ \E e \in Live(eventQueue) :
                     IsNext(eventQueue, e) /\ ret' = <<e.value>>
              /\ ret'[1] = dequeueWithPriority(eventQueue').pair[1]
              /\ eventQueue' = eventQueue
       /\ (call'.name = "peekPriority" /\ eventQueue.count > 0) =>
              /\ \E e \in Live(eventQueue) :
                     IsNext(eventQueue, e) /\ ret' = <<e.priority>>
              /\ ret'[1] = dequeueWithPriority(eventQueue').pair[2]
              /\ eventQueue' = eventQueue]_vars

\* peekPriority has returned the time 3 of the entry enqueued last, which
\* is not the entry in the last slot.
C19_Witness ==
    /\ call.name = "peekPriority"
    /\ exc = ""
    /\ ret = <<3>>
    /\ eventQueue.count = 3
    /\ eventQueue.array[0].value = 3
    /\ eventQueue.array[2].priority = 5

\* The caller has passed a packet to TCPServer.receivePacket.
ServerReceiveStep ==
    /\ nCalls' = nCalls + 1
    /\ nDeq' = nDeq
    /\ call'.name = "ReceivePacket"
    /\ call'.handler = "server"

\* C14: for a segment whose sequence number is the server's cursor, the
\* server takes the payload into its buffer (surfacing the buffer if the
\* segment has FIN) and enqueues one reply for the client, one transmission
\* delay later, that acknowledges the end of the payload and has FIN exactly
\* if the segment has.
C14_ServerAcks ==
    [][(ServerReceiveStep /\ call'.packet.seq = server.ack) =>
          LET p == call'.packet
          IN  /\ IF p.FIN
                 THEN surfaced' =
                          Append(surfaced, Decode(server.msgBytes \o p.data))
                 ELSE server'.msgBytes = server.msgBytes \o p.data
              /\ \E e \in Added(eventQueue, eventQueue') :
                     /\ Added(eventQueue, eventQueue') = {e}
                     /\ e.value.kind = "ReceivePacket"
                     /\ e.value.handler = "client"
                     /\ e.value.packet.ACK
                     /\ e.value.packet.ack = p.seq + Len(p.data)
                     /\ e.value.packet.FIN = p.FIN
                     /\ \E t \in HandlerTimes :
                            /\ e.priority = t + TRANSMISSION_DELAY
                            /\ Commit(TCPServer_receivePacket(World, p, t))]_vars

\* s is the beginning of t.
IsPrefix(s, t) ==
    /\ Len(s) <= Len(t)
    /\ SubSeq(t, 1, Len(s)) = s

\* C15: receiving a segment with FIN leaves the server's buffer empty and
\* its ack 0, and nothing else shortens the buffer.
C15_BufferReset ==
    [][/\ (ServerReceiveStep /\ call'.packet.FIN) =>
              /\ server'.msgBytes = <<>>
              /\ server'.ack = 0
       /\ ~(ServerReceiveStep /\ call'.packet.FIN) =>
              IsPrefix(server.msgBytes, server'.msgBytes)]_vars

\* The run loop has dispatched a RequestMessage.
RequestStep ==
    /\ call # call'
    /\ call'.name = "RequestMessage"

\* C17: the send that a submitted message starts enqueues one Timeout event
\* for the first segment, TIMEOUT after the time of the dispatch.
C17_TimeoutScheduled ==
    [][(RequestStep /\ call'.msg # <<>>) =>
          \E e \in Added(eventQueue, eventQueue') :
              /\ e.value.kind = "Timeout"
              /\ e.value.packet = NextPacket(Encode(call'.msg), 0, 0)
              /\ e.priority = ret'[2] + TIMEOUT
              /\ \A f \in Added(eventQueue, eventQueue') :
                     f.value.kind = "Timeout" => f = e]_vars

\* C18: a RequestMessage that gets the empty input enqueues nothing and
\* changes nothing in the client, and the loop then comes to its end with
\* the queue empty.
C18_NoFurtherMessage ==
    /\ [][(RequestStep /\ call'.msg = <<>>) =>
             /\ Added(eventQueue, eventQueue') = {}
             /\ eventQueue'.timestamp = eventQueue.timestamp
             /\ exc' = ""
             /\ UNCHANGED <<client, server, sent, surfaced>>]_vars
    /\ (call.name = "RequestMessage" /\ call.msg = <<>>)
           ~> (isEmpty(eventQueue) /\ exc = "")

\* The first input was empty: the loop has ended with nothing queued and
\* the client as it was built.
C18_Witness ==
    /\ call.name = "RequestMessage"
    /\ call.msg = <<>>
    /\ ret[2] = 0
    /\ isEmpty(eventQueue)
    /\ exc = ""
    /\ client = TCPClient_init
====
